---- MODULE Spec2Model ----
(***************************************************************************)
(* A model of package slogsentry (VoIPGRID/slog-sentry): SentryHandler, a  *)
(* slog.Handler that forwards selected records to Sentry and then hands    *)
(* them to the wrapped handler, and SlogError, the error it reports.       *)
(*                                                                         *)
(* The model follows src/handler.go.  src/unnamed/part_000 is a variant of *)
(* the same file: it adds the constructor NewSentryHandlerWithStoredAttrs  *)
(* (modelled here) and its Handle has no "tag_" rule (handler.go's Handle  *)
(* is the one modelled).                                                   *)
(*                                                                         *)
(* The Sentry SDK and the wrapped slog.Handler are collaborators.  What    *)
(* the model keeps of them is what the handler's code can observe or       *)
(* cause: which hub a call resolves, which hub the package-level           *)
(* sentry.CaptureException / sentry.CaptureMessage act on (the current     *)
(* hub), the scope a capture sees, and the wrapped handler's result.       *)
(***************************************************************************)
EXTENDS Integers, Sequences, FiniteSets, TLC

VARIABLES
    handlers,     \* the SentryHandler values made so far, in order of creation
    made,         \* for each handler, the call that made it (history)
    currentHub,   \* what sentry.CurrentHub() returns: the process-wide hub, or nil
    last,         \* the outcome of the latest Handle call
    probe         \* a SlogError value and the results of its methods

vars == <<handlers, made, currentHub, last, probe>>

----------------------------------------------------------------------------
(* Constants of the source. *)

shortErrKey == "err"
longErrKey == "error"
tagAttrPrefix == "tag_"

\* slog.TimeKey, slog.LevelKey, slog.SourceKey, slog.MessageKey, "err", "error"
slogDefaultKeys == {"time", "level", "source", "msg", shortErrKey, longErrKey}

\* slog.Level values
LevelDebug == -4
LevelInfo == 0
LevelWarn == 4
LevelError == 8

\* a level that is none of the four named ones (slog.LevelError + 4)
LevelOther == LevelError + 4

----------------------------------------------------------------------------
(* Bounds of the model. *)

MaxHandlers == 3        \* handlers made by construction and derivation (Spec)
MaxStoredAttrs == 1     \* stored attributes given to the constructor (SpecHandle)
MaxRecordAttrs == 2     \* attributes of a record (SpecHandle)

----------------------------------------------------------------------------
(* Values: errors, attribute values, attributes, records. *)

\* A Go error value: nil, or an error with the text its Error() returns.
NilError == [nil |-> TRUE, text |-> ""]
ErrorOf(t) == [nil |-> FALSE, text |-> t]

\* A slog.Value: a string, or an `any` holding nil or an error.
StringValue(t) == [kind |-> "string", text |-> t]
NilValue == [kind |-> "nil", text |-> ""]
ErrorValue(t) == [kind |-> "error", text |-> t]

Attr(k, v) == [key |-> k, value |-> v]

\* attr.Value.String(): the string itself; fmt.Sprint of the `any` otherwise,
\* which is "<nil>" for nil and the Error() text for an error.
ValueString(v) ==
    CASE v.kind = "string" -> v.text
      [] v.kind = "nil" -> "<nil>"
      [] v.kind = "error" -> v.text

\* attr.Value.Any().(error): the error and ok = TRUE when the value holds an
\* error; the zero error (nil) and ok = FALSE otherwise.
AsError(v) ==
    IF v.kind = "error"
    THEN [err |-> ErrorOf(v.text), ok |-> TRUE]
    ELSE [err |-> NilError, ok |-> FALSE]

\* strings.HasPrefix
HasPrefix(s, prefix) ==
    /\ Len(s) >= Len(prefix)
    /\ SubSeq(s, 1, Len(prefix)) = prefix

\* map[string]T
EmptyMap == [k \in {} |-> ""]
Put(m, k, v) == [x \in (DOMAIN m) \cup {k} |-> IF x = k THEN v ELSE m[x]]

SeqsUpTo(S, n) == UNION {[1..k -> S] : k \in 0..n}

----------------------------------------------------------------------------
(* SlogError *)

SlogError(m, e) == [msg |-> m, err |-> e]

\* an Error() that puts the separator before every wrapped error
SlogErrorErrorAlwaysSeparates(e) ==
    IF ~e.err.nil THEN e.msg \o ": " \o e.err.text ELSE e.msg

SlogErrorError(e) ==
    LET msg0 == e.msg
        msg1 == IF ~e.err.nil /\ Len(msg0) > 0 THEN msg0 \o ": " ELSE msg0
    IN  IF ~e.err.nil THEN msg1 \o e.err.text ELSE msg1

SlogErrorUnwrap(e) == e.err

----------------------------------------------------------------------------
(* The Sentry SDK as the handler sees it. *)

NoHub == "nil"
ProcessHub == "H0"      \* the process-wide hub
ContextHub == "H1"      \* a hub carried by a context (a clone made for a request)

EmptyScope == [contexts |-> EmptyMap, tags |-> EmptyMap]

\* scope.SetContext(key, value)
SetContext(scope, key, value) == [scope EXCEPT !.contexts = Put(@, key, value)]

RECURSIVE PutAll(_, _, _)
PutAll(m, new, keys) ==
    IF keys = {} THEN m
    ELSE LET k == CHOOSE x \in keys : TRUE
         IN  PutAll(Put(m, k, new[k]), new, keys \ {k})

\* scope.SetTags(tags)
SetTags(scope, tags) == [scope EXCEPT !.tags = PutAll(@, tags, DOMAIN tags)]

\* sentry.GetHubFromContext(ctx): the hub the context carries, or nil
GetHubFromContext(ctx) == ctx

\* The top scope of hub `on` while the callback of hub.WithScope runs on hub
\* `scoped` with the pushed scope `scope`: the pushed scope on that hub, the
\* hub's own (unchanged) scope on any other.
TopScope(on, scoped, scope) == IF on = scoped THEN scope ELSE EmptyScope

----------------------------------------------------------------------------
(* SentryHandler *)

\* The wrapped slog.Handler: the base handler and the derivations applied to it.
BaseSink == <<>>
SinkWithAttrs(sink, attrs) == Append(sink, [op |-> "WithAttrs", attrs |-> attrs, name |-> ""])
SinkWithGroup(sink, name) == Append(sink, [op |-> "WithGroup", attrs |-> <<>>, name |-> name])

NewSentryHandler(handler, levels) ==
    [Handler |-> handler, levels |-> levels, storedAttrs |-> <<>>]

NewSentryHandlerWithStoredAttrs(handler, levels, storedAttrs) ==
    [NewSentryHandler(handler, levels) EXCEPT !.storedAttrs = storedAttrs]

\* a WithAttrs that adds to the stored attributes of the handler derived from
WithAttrsAccumulating(s, attrs) ==
    [NewSentryHandler(SinkWithAttrs(s.Handler, attrs), s.levels)
        EXCEPT !.storedAttrs = s.storedAttrs \o attrs]

WithAttrs(s, attrs) ==
    [NewSentryHandler(SinkWithAttrs(s.Handler, attrs), s.levels)
        EXCEPT !.storedAttrs = attrs]

WithGroup(s, name) ==
    NewSentryHandler(SinkWithGroup(s.Handler, name), s.levels)

\* a Handle that forwards every record, whatever its level
LevelsContainAlways(levels, level) == TRUE

\* slices.Contains(s.levels, record.Level)
LevelsContain(levels, level) == level \in levels

\* The classification state of one Handle call: err, slogContext, tags.
NoClassification == [err |-> NilError, slogContext |-> EmptyMap, tags |-> EmptyMap]

\* a handleAttr without the "tag_" rule
HandleAttrWithoutTags(c, attr) ==
    IF attr.key \notin slogDefaultKeys
    THEN [c EXCEPT !.slogContext = Put(@, attr.key, ValueString(attr.value))]
    ELSE IF attr.key = shortErrKey \/ attr.key = longErrKey
    THEN LET a == AsError(attr.value)
         IN  IF a.ok
             THEN [c EXCEPT !.err = a.err]
             ELSE [c EXCEPT !.err = a.err,
                            !.slogContext = Put(@, attr.key, ValueString(attr.value))]
    ELSE c

\* a handleAttr that drops an "err"/"error" value that is no error
HandleAttrWithoutFallback(c, attr) ==
    IF HasPrefix(attr.key, tagAttrPrefix)
    THEN [c EXCEPT !.tags = Put(@, attr.key, ValueString(attr.value))]
    ELSE IF attr.key \notin slogDefaultKeys
    THEN [c EXCEPT !.slogContext = Put(@, attr.key, ValueString(attr.value))]
    ELSE IF attr.key = shortErrKey \/ attr.key = longErrKey
    THEN [c EXCEPT !.err = AsError(attr.value).err]
    ELSE c

\* a handleAttr that keeps the first error it finds
HandleAttrFirstErrorWins(c, attr) ==
    IF HasPrefix(attr.key, tagAttrPrefix)
    THEN [c EXCEPT !.tags = Put(@, attr.key, ValueString(attr.value))]
    ELSE IF attr.key \notin slogDefaultKeys
    THEN [c EXCEPT !.slogContext = Put(@, attr.key, ValueString(attr.value))]
    ELSE IF attr.key = shortErrKey \/ attr.key = longErrKey
    THEN LET a == AsError(attr.value)
         IN  IF a.ok
             THEN [c EXCEPT !.err = IF c.err.nil THEN a.err ELSE c.err]
             ELSE [c EXCEPT !.slogContext = Put(@, attr.key, ValueString(attr.value))]
    ELSE c

\* handleAttr
HandleAttr(c, attr) ==
    IF HasPrefix(attr.key, tagAttrPrefix)
    THEN [c EXCEPT !.tags = Put(@, attr.key, ValueString(attr.value))]
    ELSE IF attr.key \notin slogDefaultKeys
    THEN [c EXCEPT !.slogContext = Put(@, attr.key, ValueString(attr.value))]
    ELSE IF attr.key = shortErrKey \/ attr.key = longErrKey
    THEN LET a == AsError(attr.value)
         IN  IF a.ok
             THEN [c EXCEPT !.err = a.err]
             ELSE [c EXCEPT !.err = a.err,
                            !.slogContext = Put(@, attr.key, ValueString(attr.value))]
    ELSE c

RECURSIVE HandleAttrs(_, _)
HandleAttrs(c, attrs) ==
    IF attrs = <<>> THEN c
    ELSE HandleAttrs(HandleAttr(c, Head(attrs)), Tail(attrs))

\* the two loops of Handle: stored attributes, then the record's
Classify(storedAttrs, attrs) ==
    HandleAttrs(HandleAttrs(NoClassification, storedAttrs), attrs)

\* the hub Handle resolves
ResolveHub(ctx, cur) ==
    IF GetHubFromContext(ctx) = NoHub THEN cur ELSE GetHubFromContext(ctx)

\* the scope the callback of hub.WithScope builds
BuildScope(c) ==
    LET s1 == IF c.slogContext # EmptyMap
              THEN SetContext(EmptyScope, "slog", c.slogContext)
              ELSE EmptyScope
    IN  IF c.tags # EmptyMap THEN SetTags(s1, c.tags) ELSE s1

\* The hub the package-level sentry.CaptureException and
\* sentry.CaptureMessage act on: the current hub.
CaptureHub(hub, cur) == cur

\* a switch that reports every level from Error up as an exception
DispatchFromErrorUp(record, err, on, seen) ==
    IF record.level >= LevelError
    THEN <<[kind |-> "exception", exception |-> SlogError(record.message, err),
            hub |-> on, scope |-> seen]>>
    ELSE IF record.level \in {LevelDebug, LevelInfo, LevelWarn}
    THEN <<[kind |-> "message", message |-> record.message,
            hub |-> on, scope |-> seen]>>
    ELSE <<>>

\* the switch on record.Level: the calls of sentry.CaptureException and
\* sentry.CaptureMessage made, each with the hub it acts on and the scope it
\* sees there
Dispatch(record, err, on, seen) ==
    IF record.level = LevelError
    THEN <<[kind |-> "exception", exception |-> SlogError(record.message, err),
            hub |-> on, scope |-> seen]>>
    ELSE IF record.level \in {LevelDebug, LevelInfo, LevelWarn}
    THEN <<[kind |-> "message", message |-> record.message,
            hub |-> on, scope |-> seen]>>
    ELSE <<>>

RetNil == "nil"
RetHubNil == "sentry: hub is nil"
RetInnerFailed == "inner handler failed"

NoRecord == [level |-> 0, message |-> "", attrs |-> <<>>]

NoCall ==
    [called |-> FALSE, handler |-> 0, ctx |-> NoHub, record |-> NoRecord,
     innerResult |-> RetNil, hub |-> NoHub, cls |-> NoClassification,
     scopes |-> <<>>, captures |-> <<>>, delegated |-> <<>>, ret |-> RetNil]

\* SentryHandler.Handle on handler number i (s), with the wrapped handler's
\* Handle returning innerResult
Handle(i, s, ctx, record, cur, innerResult) ==
    LET call == [NoCall EXCEPT !.called = TRUE, !.handler = i, !.ctx = ctx,
                               !.record = record, !.innerResult = innerResult]
        hub == ResolveHub(ctx, cur)
        c == Classify(s.storedAttrs, record.attrs)
        scope == BuildScope(c)
        on == CaptureHub(hub, cur)
        delegation == <<[sink |-> s.Handler, record |-> record]>>
    IN  IF LevelsContain(s.levels, record.level)
        THEN IF hub = NoHub
             THEN [call EXCEPT !.ret = RetHubNil]
             ELSE [call EXCEPT !.hub = hub, !.cls = c,
                               !.scopes = <<[hub |-> hub, scope |-> scope]>>,
                               !.captures = Dispatch(record, c.err, on,
                                                     TopScope(on, hub, scope)),
                               !.delegated = delegation,
                               !.ret = innerResult]
        ELSE [call EXCEPT !.delegated = delegation, !.ret = innerResult]

----------------------------------------------------------------------------
(* Inputs. *)

LevelSets ==
    {{}, {LevelError}, {LevelDebug, LevelInfo, LevelWarn, LevelError, LevelOther}}

Levels == {LevelDebug, LevelInfo, LevelWarn, LevelError, LevelOther}

StoredPool ==
    {Attr("err", ErrorValue("E1")),
     Attr("tag_a", ErrorValue("E0"))}

RecordPool ==
    {Attr("error", ErrorValue("E2")),
     Attr("err", ErrorValue("E3")),
     Attr("msg", StringValue("m")),
     Attr("error", NilValue),
     Attr("err", StringValue("text")),
     Attr("tag_a", StringValue("x")),
     Attr("some_attr", StringValue("yes"))}

StoredChoices == SeqsUpTo(StoredPool, MaxStoredAttrs)

\* What a call's context can carry.  A hub reaches a context as a clone of the
\* current hub, so a context carries one only in a process that has one.
Contexts(cur) == IF cur = NoHub THEN {NoHub} ELSE {NoHub, ContextHub}
InnerResults == {RetNil, RetInnerFailed}

Records ==
    [level : Levels, message : {"the message", ""},
     attrs : SeqsUpTo(RecordPool, MaxRecordAttrs)]

\* the inputs of Spec, where the handlers vary
ChainStoredChoices ==
    {<<>>,
     <<Attr("err", ErrorValue("E1"))>>,
     <<Attr("some_attr", StringValue("old"))>>,
     <<Attr("tag_a", ErrorValue("E0")), Attr("k", StringValue("v"))>>}

ChainRecords ==
    [level : {LevelInfo, LevelError}, message : {"the message"},
     attrs : {<<>>,
              <<Attr("error", ErrorValue("E2"))>>,
              <<Attr("some_attr", StringValue("yes"))>>,
              <<Attr("tag_a", StringValue("x"))>>}]

Messages == {"", "the message", "m", ": "}
Errors == {NilError} \cup {ErrorOf(t) : t \in {"", "the error", "E1", "E2", "m", ": "}}

NoProbe ==
    [e |-> SlogError("", NilError), errorCalled |-> FALSE, error |-> "",
     unwrapCalled |-> FALSE, unwrap |-> NilError]

----------------------------------------------------------------------------
(* Actions. *)

\* history: the call that made a handler, and the handler as it was made
Made(op, from, attrs, value) ==
    [op |-> op, from |-> from, attrs |-> attrs, value |-> value]

NewSentryHandlerCall ==
    /\ handlers = <<>>
    /\ \E levels \in LevelSets :
          /\ handlers' = <<NewSentryHandler(BaseSink, levels)>>
          /\ made' = <<Made("NewSentryHandler", 0, <<>>, handlers'[1])>>
    /\ UNCHANGED <<currentHub, last, probe>>

NewSentryHandlerWithStoredAttrsCall(choices) ==
    /\ handlers = <<>>
    /\ \E levels \in LevelSets, attrs \in choices :
          /\ handlers' = <<NewSentryHandlerWithStoredAttrs(BaseSink, levels, attrs)>>
          /\ made' = <<Made("NewSentryHandlerWithStoredAttrs", 0, attrs, handlers'[1])>>
    /\ UNCHANGED <<currentHub, last, probe>>

WithAttrsCall ==
    /\ Len(handlers) < MaxHandlers
    /\ \E i \in 1..Len(handlers), attrs \in ChainStoredChoices :
          /\ handlers' = Append(handlers, WithAttrs(handlers[i], attrs))
          /\ made' = Append(made, Made("WithAttrs", i, attrs, handlers'[Len(handlers')]))
    /\ UNCHANGED <<currentHub, last, probe>>

WithGroupCall ==
    /\ Len(handlers) < MaxHandlers
    /\ \E i \in 1..Len(handlers) :
          /\ handlers' = Append(handlers, WithGroup(handlers[i], "g"))
          /\ made' = Append(made, Made("WithGroup", i, <<>>, handlers'[Len(handlers')]))
    /\ UNCHANGED <<currentHub, last, probe>>

HandleCall ==
    /\ ~last.called
    /\ \E i \in 1..Len(handlers), ctx \in Contexts(currentHub), record \in Records,
          innerResult \in InnerResults :
          last' = Handle(i, handlers[i], ctx, record, currentHub, innerResult)
    /\ UNCHANGED <<handlers, made, currentHub, probe>>

ChainHandleCall ==
    /\ ~last.called
    /\ \E i \in 1..Len(handlers), record \in ChainRecords :
          last' = Handle(i, handlers[i], NoHub, record, currentHub, RetNil)
    /\ UNCHANGED <<handlers, made, currentHub, probe>>

\* the caller takes the result of the Handle call
ReturnCall ==
    /\ last.called
    /\ last' = NoCall
    /\ UNCHANGED <<handlers, made, currentHub, probe>>

ErrorCall ==
    /\ ~probe.errorCalled
    /\ probe' = [probe EXCEPT !.errorCalled = TRUE, !.error = SlogErrorError(probe.e)]
    /\ UNCHANGED <<handlers, made, currentHub, last>>

UnwrapCall ==
    /\ ~probe.unwrapCalled
    /\ probe' = [probe EXCEPT !.unwrapCalled = TRUE, !.unwrap = SlogErrorUnwrap(probe.e)]
    /\ UNCHANGED <<handlers, made, currentHub, last>>

----------------------------------------------------------------------------
(* Specifications. *)

Init ==
    /\ handlers = <<>>
    /\ made = <<>>
    /\ currentHub \in {NoHub, ProcessHub}
    /\ last = NoCall
    /\ probe = NoProbe

\* derivation chains: every operation of the handler, records of Spec's size
Next ==
    \/ NewSentryHandlerCall
    \/ NewSentryHandlerWithStoredAttrsCall(ChainStoredChoices)
    \/ WithAttrsCall
    \/ WithGroupCall
    \/ ChainHandleCall
    \/ ReturnCall

Spec == Init /\ [][Next]_vars

\* Handle on a constructed handler, over every record, context and result
NextHandle ==
    \/ NewSentryHandlerCall
    \/ NewSentryHandlerWithStoredAttrsCall(StoredChoices)
    \/ HandleCall
    \/ ReturnCall

SpecHandle == Init /\ [][NextHandle]_vars

\* the methods of SlogError
InitError ==
    /\ handlers = <<>>
    /\ made = <<>>
    /\ currentHub = ProcessHub
    /\ last = NoCall
    /\ \E m \in Messages, e \in Errors : probe = [NoProbe EXCEPT !.e = SlogError(m, e)]

NextError == ErrorCall \/ UnwrapCall

SpecError == InitError /\ [][NextError]_vars

----------------------------------------------------------------------------
(* What the claims speak of, in terms of the latest Handle call. *)

Called == last.called
TheHandler == handlers[last.handler]
InForwardingSet == last.record.level \in TheHandler.levels

\* the attributes Handle scans, in scan order
Scan == TheHandler.storedAttrs \o last.record.attrs

\* the context or the process-wide default yields a hub
SessionAvailable == last.ctx # NoHub \/ currentHub # NoHub

\* a record in the forwarding set, with a hub to forward it to
Forwarded == Called /\ InForwardingSet /\ SessionAvailable

ErrKeys == {"err", "error"}
StartsWithTag(k) == Len(k) >= 4 /\ SubSeq(k, 1, 4) = "tag_"
ErrorTyped(v) == v.kind = "error"

\* the string rendering of a value: "<nil>" for nil, the text otherwise
Rendered(v) == IF v.kind = "nil" THEN "<nil>" ELSE v.text

\* the places of the scan with key k / with a key of K
ScanKey(k) == {i \in 1..Len(Scan) : Scan[i].key = k}
ScanKeys(K) == {i \in 1..Len(Scan) : Scan[i].key \in K}
Latest(S) == CHOOSE i \in S : \A j \in S : j <= i

\* the scope opened by the call
TheScope == last.scopes[1].scope

\* the record was handed to the handler's wrapped handler exactly once, and
\* Handle returned what that returned
DelegatedOnce ==
    /\ last.delegated = <<[sink |-> TheHandler.Handler, record |-> last.record]>>
    /\ last.ret = last.innerResult

----------------------------------------------------------------------------
(* C1: for every handler, record and context, Handle hands the record to   *)
(* the wrapped handler exactly once and returns its result unchanged, also *)
(* when the record's level is in the forwarding set and neither the        *)
(* context nor the process-wide default yields a hub.                      *)
C1_AlwaysDelegates == Called => DelegatedOnce

----------------------------------------------------------------------------
(* C2: for a record whose level is not in the handler's forwarding set     *)
(* (the empty set included), Handle makes no capture, opens no scope, and  *)
(* returns exactly the wrapped handler's result.                           *)
C2_NotForwardedOnlyDelegates ==
    (Called /\ ~InForwardingSet) =>
        /\ last.captures = <<>>
        /\ last.scopes = <<>>
        /\ DelegatedOnce

C2_Witness ==
    /\ Called /\ ~InForwardingSet
    /\ TheHandler.levels = {LevelError}
    /\ last.record.level = LevelWarn
    /\ last.record.attrs # <<>>
    /\ currentHub = NoHub /\ last.ctx = NoHub
    /\ last.innerResult = RetInnerFailed
    /\ last.ret = RetInnerFailed


----------------------------------------------------------------------------
(* C3: for a forwarded record with an attribute keyed "err" or "error"     *)
(* whose value is not error-typed (a plain string, or nil), the value's    *)
(* string rendering is stored in the context map under that key ("error"   *)
(* -> "<nil>" for nil), and Handle returns success when the wrapped        *)
(* handler succeeds.                                                       *)
C3_NonErrorValueFallsBack ==
    Forwarded =>
        \A k \in ErrKeys :
            LET S == {i \in ScanKey(k) : ~ErrorTyped(Scan[i].value)}
            IN  S # {} =>
                  /\ k \in DOMAIN last.cls.slogContext
                  /\ last.cls.slogContext[k] = Rendered(Scan[Latest(S)].value)
                  /\ Len(last.scopes) = 1
                  /\ "slog" \in DOMAIN TheScope.contexts
                  /\ TheScope.contexts["slog"][k] = Rendered(Scan[Latest(S)].value)
                  /\ (last.innerResult = RetNil => last.ret = RetNil)

\* the record of TestHandleHandlesNilErrorAttr
C3_Witness ==
    /\ Forwarded
    /\ TheHandler.levels = {LevelError}
    /\ last.record.level = LevelError
    /\ last.record.attrs =
          <<Attr("some_attr", StringValue("yes")), Attr("error", NilValue)>>
    /\ last.cls.slogContext["error"] = "<nil>"
    /\ last.ret = RetNil

----------------------------------------------------------------------------
(* C4: every attribute, stored or of the record, whose key starts with     *)
(* "tag_" puts its value's string rendering in the tag map under the full  *)
(* key, never appears in the context map and never sets the carried error; *)
(* and no key without the prefix is in the tag map.                        *)
C4_TagAttrsGoToTags ==
    Forwarded =>
        /\ \A i \in 1..Len(Scan) :
              StartsWithTag(Scan[i].key) =>
                /\ Scan[i].key \in DOMAIN last.cls.tags
                /\ last.cls.tags[Scan[i].key] =
                      Rendered(Scan[Latest(ScanKey(Scan[i].key))].value)
                /\ Scan[i].key \notin DOMAIN last.cls.slogContext
                /\ Len(last.scopes) = 1
                /\ TheScope.tags = last.cls.tags
        /\ \A k \in DOMAIN last.cls.tags : StartsWithTag(k)
        /\ ~last.cls.err.nil =>
              \E i \in ScanKeys(ErrKeys) :
                  /\ ErrorTyped(Scan[i].value)
                  /\ last.cls.err = ErrorOf(Scan[i].value.text)

C4_Witness ==
    /\ Forwarded
    /\ TheHandler.storedAttrs = <<Attr("tag_a", ErrorValue("E0"))>>
    /\ last.record.attrs =
          <<Attr("tag_a", StringValue("x")), Attr("some_attr", StringValue("yes"))>>
    /\ last.cls.tags = [k \in {"tag_a"} |-> "x"]
    /\ last.cls.err = NilError

----------------------------------------------------------------------------
(* C5: when attributes with a reserved error key carry error-typed values, *)
(* scanned stored attributes first and then the record's, the carried      *)
(* error of the Error-level exception is the value of the last one: a      *)
(* record attribute's error overrides a stored attribute's.  (Stated for   *)
(* scans whose last reserved-key attribute is error-typed.)                *)
C5_LastErrorWins ==
    Forwarded =>
        LET R == ScanKeys(ErrKeys)
        IN  (R # {} /\ ErrorTyped(Scan[Latest(R)].value)) =>
              /\ last.cls.err = ErrorOf(Scan[Latest(R)].value.text)
              /\ last.record.level = LevelError =>
                    /\ Len(last.captures) = 1
                    /\ last.captures[1].kind = "exception"
                    /\ last.captures[1].exception.err =
                          ErrorOf(Scan[Latest(R)].value.text)

C5_Witness ==
    /\ Forwarded
    /\ last.record.level = LevelError
    /\ TheHandler.storedAttrs = <<Attr("err", ErrorValue("E1"))>>
    /\ last.record.attrs =
          <<Attr("err", ErrorValue("E3")), Attr("error", ErrorValue("E2"))>>
    /\ last.captures[1].exception.err = ErrorOf("E2")

----------------------------------------------------------------------------
(* C10: a reserved-error-key attribute whose value is not error-typed only *)
(* adds its rendering to the context map and leaves the carried error as   *)
(* it was: the carried error is the last error-typed "err"/"error" value   *)
(* in scan order, and the Error-level exception is built from it.          *)
C10_NonErrorKeepsCarriedError ==
    Forwarded =>
        LET E == {i \in ScanKeys(ErrKeys) : ErrorTyped(Scan[i].value)}
            carried == IF E = {} THEN NilError
                       ELSE ErrorOf(Scan[Latest(E)].value.text)
        IN  /\ last.cls.err = carried
            /\ last.record.level = LevelError =>
                  /\ Len(last.captures) = 1
                  /\ last.captures[1].exception.err = carried

----------------------------------------------------------------------------
(* C8: for a forwarded record the level alone decides: Error, exactly one  *)
(* exception built from (record message, carried error); Debug, Info or    *)
(* Warn, exactly one plain message with the record message only, the       *)
(* carried error not attached; any other level, no capture and no error.   *)
(* In every case Handle then hands the record to the wrapped handler.      *)
C8_DispatchByLevel ==
    Forwarded =>
        /\ last.record.level = LevelError =>
              /\ Len(last.captures) = 1
              /\ last.captures[1].kind = "exception"
              /\ last.captures[1].exception =
                    [msg |-> last.record.message, err |-> last.cls.err]
              /\ "message" \notin DOMAIN last.captures[1]
        /\ last.record.level \in {LevelDebug, LevelInfo, LevelWarn} =>
              /\ Len(last.captures) = 1
              /\ last.captures[1].kind = "message"
              /\ last.captures[1].message = last.record.message
              /\ "exception" \notin DOMAIN last.captures[1]
        /\ last.record.level \notin {LevelDebug, LevelInfo, LevelWarn, LevelError} =>
              last.captures = <<>>
        /\ DelegatedOnce

C8_Witness ==
    /\ Forwarded
    /\ last.record.level = LevelOther
    /\ TheHandler.storedAttrs = <<Attr("err", ErrorValue("E1"))>>
    /\ last.cls.err = ErrorOf("E1")
    /\ last.captures = <<>>
    /\ last.innerResult = RetInnerFailed
    /\ last.ret = RetInnerFailed

----------------------------------------------------------------------------
(* C9: for a forwarded record the capture is made on the hub Handle        *)
(* resolved (the context's hub when there is one, the process-wide default *)
(* otherwise) and sees the scope on which the non-empty context map (under *)
(* "slog") and the non-empty tag map were set.                             *)
C9_CaptureOnResolvedHubInScope ==
    Forwarded =>
        LET resolved == IF last.ctx # NoHub THEN last.ctx ELSE currentHub
        IN  /\ Len(last.scopes) = 1
            /\ last.scopes[1].hub = resolved
            /\ last.cls.slogContext # EmptyMap =>
                  /\ "slog" \in DOMAIN TheScope.contexts
                  /\ TheScope.contexts["slog"] = last.cls.slogContext
            /\ last.cls.tags # EmptyMap => TheScope.tags = last.cls.tags
            /\ \A i \in 1..Len(last.captures) :
                  /\ last.captures[i].hub = resolved
                  /\ last.captures[i].scope = TheScope

----------------------------------------------------------------------------
(* C6: after any sequence of WithAttrs and WithGroup derivations from a    *)
(* constructed handler, the handler's stored attributes are the argument   *)
(* of the last derivation if that was WithAttrs, and empty if it was       *)
(* WithGroup or if there was no derivation; Handle classifies exactly      *)
(* those and the record's own attributes; the handler derived from is      *)
(* left unchanged.                                                         *)

\* no handler has changed since it was made
HandlersUnchanged ==
    \A i \in 1..Len(handlers) : handlers[i] = made[i].value

\* Handle classified exactly the attributes `given` and the record's own
ClassifiedExactly(given) ==
    last.cls = HandleAttrs(NoClassification, given \o last.record.attrs)

\* the claim as it stands
C6_StoredAttrsOfLastDerivation ==
    LET given(i) == IF made[i].op = "WithAttrs" THEN made[i].attrs ELSE <<>>
    IN  /\ \A i \in 1..Len(handlers) : handlers[i].storedAttrs = given(i)
        /\ HandlersUnchanged
        /\ Forwarded => ClassifiedExactly(given(last.handler))

\* amended: with no derivation, the stored attributes are those the
\* constructor was given (none for NewSentryHandler)
C6_StoredAttrsOfLastDerivationOrConstructor ==
    LET given(i) ==
            IF made[i].op \in {"WithAttrs", "NewSentryHandlerWithStoredAttrs"}
            THEN made[i].attrs ELSE <<>>
    IN  /\ \A i \in 1..Len(handlers) : handlers[i].storedAttrs = given(i)
        /\ HandlersUnchanged
        /\ Forwarded => ClassifiedExactly(given(last.handler))

C6_Witness ==
    /\ Len(handlers) = 3
    /\ made[1].op = "NewSentryHandlerWithStoredAttrs"
    /\ made[1].attrs = <<Attr("tag_a", ErrorValue("E0")), Attr("k", StringValue("v"))>>
    /\ made[2] = Made("WithAttrs", 1, <<Attr("some_attr", StringValue("old"))>>,
                       handlers[2])
    /\ made[3] = Made("WithAttrs", 2, <<Attr("err", ErrorValue("E1"))>>, handlers[3])
    /\ Forwarded
    /\ last.handler = 3
    /\ last.record.level = LevelError
    /\ last.record.attrs = <<Attr("tag_a", StringValue("x"))>>
    /\ last.cls = [err |-> ErrorOf("E1"), slogContext |-> EmptyMap,
                   tags |-> [k \in {"tag_a"} |-> "x"]]

----------------------------------------------------------------------------
(* C7: for a SlogError with message m and wrapped error e, Error() is      *)
(* m + ": " + e.Error() when m is non-empty and e non-nil, m when e is     *)
(* nil, and e.Error() when m is empty and e non-nil; Unwrap() is e.        *)
C7_ErrorAndUnwrap ==
    LET m == probe.e.msg
        e == probe.e.err
    IN  /\ probe.errorCalled =>
              probe.error = IF e.nil THEN m
                            ELSE IF m = "" THEN e.text
                            ELSE m \o ": " \o e.text
        /\ probe.unwrapCalled => probe.unwrap = e

C7_Witness ==
    /\ probe.errorCalled /\ probe.unwrapCalled
    /\ probe.e = [msg |-> "the message", err |-> [nil |-> FALSE, text |-> "the error"]]
    /\ probe.error = "the message: the error"
    /\ probe.unwrap = [nil |-> FALSE, text |-> "the error"]

====
